---------------------------- MODULE Spec2Model ----------------------------
(***************************************************************************)
(* Verification model of pyturbo: zero-dimensional gas-turbine component   *)
(* models (combustor, nozzle, gas law, compressor, turbine, propeller,     *)
(* power gear box), the turboprop geometry, the design-method declarations *)
(* of the compressor and turbine assemblies, and the names the packages    *)
(* bind for the test modules that import them.                             *)
(*                                                                         *)
(* Real-valued quantities are exact rationals <<n, d>> (d > 0, lowest      *)
(* terms).  <<-1, 0>> and <<1, 0>> stand for -inf and +inf (bounds of      *)
(* unknowns, and the results of a numpy division by zero), <<0, 0>> for    *)
(* nan.  Every component has its own specification                         *)
(* (SpecX == Init /\ [][NextX]_vars): the test-suite builds one system at  *)
(* a time, so the other components stay as constructed.                    *)
(***************************************************************************)
EXTENDS Integers, Sequences, FiniteSets, TLC

VARIABLES
    last,            \* name of the last operation executed (position of the driver)
    \* ---- Combustor / GasGenerator / TorqueGenerator
    gg_cls,          \* which system class was constructed
    gg_fl_in_W,      \* fl_in.W
    gg_fuel_W,       \* fuel_W
    gg_comp_out_W,   \* compressor.fl_out.W  (connector to the combustor)
    gg_comb_out_W,   \* combustor.fl_out.W   (connector to the turbine)
    gg_fl_out_W,     \* fl_out.W
    \* ---- NozzleAero
    noz_Pt,          \* fl_in.Pt  [hPa]
    noz_pamb,        \* pamb      [hPa]
    noz_time,        \* time of the transient driver [steps of dt]
    noz_mach,        \* mach      [tenths]
    noz_ps,          \* exit static pressure [hPa]
    noz_prev_mach,   \* history: mach before the last recompute
    \* ---- gas law (enthalpy / temperature round trip)
    gl_T,            \* temperature handed to enthalpy
    gl_tol,          \* tolerance handed to temperature_from_enthalpy
    gl_h,            \* enthalpy(gl_T)
    gl_res,          \* result of temperature_from_enthalpy(gl_h, gl_tol)
    \* ---- Compressor
    cmp_config,      \* config argument of setup
    cmp_dm,          \* design_methods: name -> design method
    cmp_val,         \* values of sh_in.N, N, geom.blade_hub_to_tip_ratio
    cmp_problem,     \* the solver's problem (after solver.extend)
    cmp_steps,       \* solver iterations done
    \* ---- Turbine
    tur_config,      \* config argument of setup
    tur_dm,          \* design_methods: name -> design method
    tur_offdesign,   \* unknowns of the system's own off-design problem
    tur_val,         \* values of the variables the solver may change
    tur_problem,     \* the solver's problem (after solver.extend)
    tur_steps,       \* solver iterations done
    \* ---- PropellerAero
    prop_in,         \* inwards and input ports
    prop_out,        \* outwards
    prop_status,     \* outcome of the last compute
    \* ---- PowerGearBox
    pgb_in,          \* speed_ratio and sh_in
    pgb_out,         \* sh_out
    pgb_status,      \* outcome of the last compute
    \* ---- TurbopropGeom
    geom_in,         \* inwards
    geom_out,        \* output ports and outwards
    geom_problem,    \* unknowns, equations and design methods the system declares
    \* ---- test session
    imp_status       \* test module -> outcome of its import statements

vars == << last,
           gg_cls, gg_fl_in_W, gg_fuel_W, gg_comp_out_W, gg_comb_out_W, gg_fl_out_W,
           noz_Pt, noz_pamb, noz_time, noz_mach, noz_ps, noz_prev_mach,
           gl_T, gl_tol, gl_h, gl_res,
           cmp_config, cmp_dm, cmp_val, cmp_problem, cmp_steps,
           tur_config, tur_dm, tur_offdesign, tur_val, tur_problem, tur_steps,
           prop_in, prop_out, prop_status,
           pgb_in, pgb_out, pgb_status,
           geom_in, geom_out, geom_problem,
           imp_status >>

gg_vars == << gg_cls, gg_fl_in_W, gg_fuel_W, gg_comp_out_W, gg_comb_out_W, gg_fl_out_W >>
noz_vars == << noz_Pt, noz_pamb, noz_time, noz_mach, noz_ps, noz_prev_mach >>
gl_vars == << gl_T, gl_tol, gl_h, gl_res >>
cmp_vars == << cmp_config, cmp_dm, cmp_val, cmp_problem, cmp_steps >>
tur_vars == << tur_config, tur_dm, tur_offdesign, tur_val, tur_problem, tur_steps >>
prop_vars == << prop_in, prop_out, prop_status >>
pgb_vars == << pgb_in, pgb_out, pgb_status >>
geom_vars == << geom_in, geom_out, geom_problem >>
imp_vars == << imp_status >>

\* what the operations of one component leave alone
others_gg ==
    << noz_vars, gl_vars, cmp_vars, tur_vars,
       prop_vars, pgb_vars, geom_vars, imp_vars >>
others_noz ==
    << gg_vars, gl_vars, cmp_vars, tur_vars,
       prop_vars, pgb_vars, geom_vars, imp_vars >>
others_gl ==
    << gg_vars, noz_vars, cmp_vars, tur_vars,
       prop_vars, pgb_vars, geom_vars, imp_vars >>
others_cmp ==
    << gg_vars, noz_vars, gl_vars, tur_vars,
       prop_vars, pgb_vars, geom_vars, imp_vars >>
others_tur ==
    << gg_vars, noz_vars, gl_vars, cmp_vars,
       prop_vars, pgb_vars, geom_vars, imp_vars >>
others_prop ==
    << gg_vars, noz_vars, gl_vars, cmp_vars,
       tur_vars, pgb_vars, geom_vars, imp_vars >>
others_pgb ==
    << gg_vars, noz_vars, gl_vars, cmp_vars,
       tur_vars, prop_vars, geom_vars, imp_vars >>
others_geom ==
    << gg_vars, noz_vars, gl_vars, cmp_vars,
       tur_vars, prop_vars, pgb_vars, imp_vars >>
others_imp ==
    << gg_vars, noz_vars, gl_vars, cmp_vars,
       tur_vars, prop_vars, pgb_vars, geom_vars >>

---------------------------------------------------------------------------
(* Exact rational arithmetic (python floats, without their rounding).      *)

Abs(x) == IF x < 0 THEN -x ELSE x

RECURSIVE GCD(_, _)
GCD(a, b) == IF b = 0 THEN a ELSE GCD(b, a % b)

\* n/d in lowest terms with a positive denominator
Q(n, d) ==
    LET g == GCD(Abs(n), Abs(d))
        s == IF d < 0 THEN -1 ELSE 1
    IN  << s * (n \div g), s * (d \div g) >>

QI(n) == << n, 1 >>
QZero == << 0, 1 >>
QOne == << 1, 1 >>
NegInf == << -1, 0 >>
PosInf == << 1, 0 >>

QAdd(a, b) ==
    LET g == GCD(a[2], b[2])
    IN  Q(a[1] * (b[2] \div g) + b[1] * (a[2] \div g), (a[2] \div g) * b[2])
QNeg(a) == << -a[1], a[2] >>
QSub(a, b) == QAdd(a, QNeg(b))
QMul(a, b) ==
    LET g1 == GCD(Abs(a[1]), b[2])
        g2 == GCD(Abs(b[1]), a[2])
    IN  IF a[1] = 0 \/ b[1] = 0 THEN QZero
        ELSE Q((a[1] \div g1) * (b[1] \div g2), (a[2] \div g2) * (b[2] \div g1))
\* b # 0
QDiv(a, b) == QMul(a, Q(b[2], b[1]))
\* a <= b; also right when one side is -inf or +inf
QLe(a, b) == a[1] * b[2] <= b[1] * a[2]
QLt(a, b) == a[1] * b[2] < b[1] * a[2]
QAbs(a) == << Abs(a[1]), a[2] >>
QIsZero(a) == a[1] = 0
\* the largest integer <= a
QFloor(a) == a[1] \div a[2]


---------------------------------------------------------------------------
(* Combustor, GasGenerator, TorqueGenerator: the mass flow through the     *)
(* chain compressor -> combustor -> turbine (spec 4.5, 4.8).               *)

GGClasses == { "Combustor", "GasGenerator", "TorqueGenerator" }
GGFlows == { QI(0), QI(1), QI(80), QI(100) }
GGFuels == { QI(0), Q(1, 10), QI(1), Q(5, 2) }

GGInit ==
    /\ gg_cls = "Combustor"
    /\ gg_fl_in_W = QOne
    /\ gg_fuel_W = QOne
    /\ gg_comp_out_W = QOne
    /\ gg_comb_out_W = QOne
    /\ gg_fl_out_W = QOne

\* a compressor and a turbine pass their inlet mass flow on
CompressorFlOutW(w) == w
TurbineFlOutW(w) == w

CombustorNoFuel(w, fuel) == w
\* W_out = W_in + W_fuel
CombustorFlOutW(w, fuel) == QAdd(w, fuel)

\* cls("sys"): a new system, its ports at their defaults
GGConstruct(cls) ==
    /\ gg_cls' = cls
    /\ gg_fl_in_W' = QOne
    /\ gg_fuel_W' = QOne
    /\ gg_comp_out_W' = QOne
    /\ gg_comb_out_W' = QOne
    /\ gg_fl_out_W' = QOne
    /\ last' = "gg_construct"
    /\ UNCHANGED others_gg

\* sys.fl_in.W = w; sys.fuel_W = fuel
GGSetInputs(w, fuel) ==
    /\ gg_fl_in_W' = w
    /\ gg_fuel_W' = fuel
    /\ UNCHANGED << gg_cls, gg_comp_out_W, gg_comb_out_W, gg_fl_out_W >>
    /\ last' = "gg_set"
    /\ UNCHANGED others_gg

\* sys.run_once(): the children compute in flow order, each connector
\* handing the upstream outlet to the downstream inlet
GGRunOnce ==
    LET comp == IF gg_cls = "Combustor" THEN gg_comp_out_W
                ELSE CompressorFlOutW(gg_fl_in_W)
        comb == IF gg_cls = "Combustor" THEN CombustorFlOutW(gg_fl_in_W, gg_fuel_W)
                ELSE CombustorFlOutW(comp, gg_fuel_W)
        out  == IF gg_cls = "Combustor" THEN comb ELSE TurbineFlOutW(comb)
    IN  /\ gg_comp_out_W' = comp
        /\ gg_comb_out_W' = comb
        /\ gg_fl_out_W' = out
        /\ UNCHANGED << gg_cls, gg_fl_in_W, gg_fuel_W >>
        /\ last' = "gg_run_once"
        /\ UNCHANGED others_gg

---------------------------------------------------------------------------
(* NozzleAero (spec 4.4).  Pressures in hPa, Mach numbers in tenths.       *)

\* 1000 * Pt/ps of an isentropic expansion to Mach m/10:
\* (1 + 0.2 (m/10)^2)^3.5, m = 0 .. 20
PtOverPs ==
    << 1000, 1007, 1028, 1064, 1117, 1186, 1276, 1387, 1524, 1691, 1893,
       2135, 2425, 2771, 3182, 3671, 4250, 4936, 5746, 6701, 7824 >>

MachOne == 10

\* the Mach number reached by expanding from pt to the static pressure ps:
\* the largest Mach of the grid whose pressure ratio pt/ps allows
IdealMach(pt, ps) ==
    LET reach == { m \in 0..(Len(PtOverPs) - 1) : PtOverPs[m + 1] * ps <= 1000 * pt }
    IN  IF reach = {} THEN 0
        ELSE CHOOSE m \in reach : \A k \in reach : k <= m

\* the static pressure at Mach m/10
StaticP(pt, m) == (1000 * pt) \div PtOverPs[m + 1]

ChokedLatched(ideal) == ideal >= MachOne \/ noz_mach = MachOne
\* the branch of this recompute: ideal Mach >= 1 => sonic
Choked(ideal) == ideal >= MachOne

NozzleMachNoClamp(pt, pamb) == IdealMach(pt, pamb)
NozzleMach(pt, pamb) ==
    LET ideal == IdealMach(pt, pamb)
    IN  IF Choked(ideal) THEN MachOne ELSE ideal

NozzlePs(pt, pamb) ==
    LET ideal == IdealMach(pt, pamb)
    IN  IF Choked(ideal) THEN StaticP(pt, MachOne) ELSE pamb

\* pamb = 1.01e5 - 1e4 * time, time = t * dt with dt = 0.1
NozScenario(t) == 1010 - 10 * t
\* end of the time interval (0, 10), in steps of dt
NozLastStep == 100

NozPts == { 1013, 1405, 1893 }
NozPambs == { 1, 500, 742, 743, 1000, 1010, 1405 }

NozInit ==
    /\ noz_Pt = 1013
    /\ noz_pamb = 1013
    /\ noz_time = 0
    /\ noz_mach = 0
    /\ noz_ps = 1013
    /\ noz_prev_mach = 0

\* run_drivers() returns when the time driver has reached the end
NozIdle == last = "noz_transient" => noz_time = NozLastStep

\* NozzleAero.compute on the inputs pt, pamb
NozCompute(pt, pamb) ==
    /\ noz_mach' = NozzleMach(pt, pamb)
    /\ noz_ps' = NozzlePs(pt, pamb)
    /\ noz_prev_mach' = noz_mach

\* sys.pamb = pamb; sys.fl_in.Pt = pt (not while the time driver runs)
NozSet(pt, pamb) ==
    /\ NozIdle
    /\ noz_Pt' = pt
    /\ noz_pamb' = pamb
    /\ UNCHANGED << noz_time, noz_mach, noz_ps, noz_prev_mach >>
    /\ last' = "noz_set"
    /\ UNCHANGED others_noz

\* sys.run_drivers() with a NonLinearSolver: one recompute
NozRunDrivers ==
    /\ NozIdle
    /\ NozCompute(noz_Pt, noz_pamb)
    /\ UNCHANGED << noz_Pt, noz_pamb, noz_time >>
    /\ last' = "noz_compute"
    /\ UNCHANGED others_noz

\* EulerExplicit: the first step sets the scenario at time 0 and recomputes
NozTransientStart ==
    /\ NozIdle
    /\ noz_time' = 0
    /\ noz_pamb' = NozScenario(0)
    /\ NozCompute(noz_Pt, NozScenario(0))
    /\ UNCHANGED noz_Pt
    /\ last' = "noz_transient"
    /\ UNCHANGED others_noz

\* EulerExplicit: advance the time by dt, set the scenario, recompute
NozTransientStep ==
    /\ last = "noz_transient"
    /\ noz_time < NozLastStep
    /\ noz_time' = noz_time + 1
    /\ noz_pamb' = NozScenario(noz_time + 1)
    /\ NozCompute(noz_Pt, NozScenario(noz_time + 1))
    /\ UNCHANGED noz_Pt
    /\ last' = "noz_transient"
    /\ UNCHANGED others_noz

---------------------------------------------------------------------------
(* Gas law (spec 4.1): a perfect gas, h = cp T, density = P / (R T), and   *)
(* the inversion of h by bisection on the valid temperature range.         *)

Cp == 1004
Rgas == 287
\* the valid temperature range
TLow == 128
THigh == 1152
\* iteration budget of the root search
MaxIter == 20

enthalpy(T) == QMul(QI(Cp), T)

density(P, T) == QDiv(P, QMul(QI(Rgas), T))

QHalf(a) == QMul(a, Q(1, 2))

RECURSIVE BisectWide(_, _, _, _, _)
BisectWide(lo, hi, h, tol, it) ==
    LET mid == QHalf(QAdd(lo, hi))
    IN  IF QLe(QSub(hi, lo), QMul(QI(8), tol)) THEN [ok |-> TRUE, T |-> mid]
        ELSE IF it = 0 THEN [ok |-> FALSE, T |-> mid]
        ELSE IF QLe(enthalpy(mid), h) THEN BisectWide(mid, hi, h, tol, it - 1)
        ELSE BisectWide(lo, mid, h, tol, it - 1)

\* the root of enthalpy(T) = h lies in [lo, hi]; stop when the midpoint is
\* within tol of it, fail when the budget is spent
RECURSIVE Bisect(_, _, _, _, _)
Bisect(lo, hi, h, tol, it) ==
    LET mid == QHalf(QAdd(lo, hi))
    IN  IF QLe(QSub(hi, lo), QMul(QI(2), tol)) THEN [ok |-> TRUE, T |-> mid]
        ELSE IF it = 0 THEN [ok |-> FALSE, T |-> mid]
        ELSE IF QLe(enthalpy(mid), h) THEN Bisect(mid, hi, h, tol, it - 1)
        ELSE Bisect(lo, mid, h, tol, it - 1)

TfhLoose(h, tol) ==
    IF QLt(h, enthalpy(QI(TLow))) \/ QLt(enthalpy(QI(THigh)), h)
    THEN [ok |-> FALSE, T |-> QZero]
    ELSE BisectWide(QI(TLow), QI(THigh), h, tol, MaxIter)

\* temperature_from_enthalpy(h, tol): [ok |-> FALSE] is the ConvergenceError
temperature_from_enthalpy(h, tol) ==
    IF QLt(h, enthalpy(QI(TLow))) \/ QLt(enthalpy(QI(THigh)), h)
    THEN [ok |-> FALSE, T |-> QZero]
    ELSE Bisect(QI(TLow), QI(THigh), h, tol, MaxIter)

\* temperatures and tolerances of the round-trip sweep: from GLMargin
\* degrees below the valid range to above it, in steps of GLStride quarters
GLStride == 37
GLMargin == 2
GLTols == { QI(1), Q(1, 4), Q(1, 8) }

GLInit ==
    /\ gl_T = QI(TLow - GLMargin)
    /\ gl_tol = QI(1)
    /\ gl_h = QZero
    /\ gl_res = [ok |-> FALSE, T |-> QZero]

GLNextTemp ==
    IF QLe(QI(THigh + GLMargin), gl_T) THEN QI(TLow - GLMargin)
    ELSE QAdd(gl_T, Q(GLStride, 4))

\* h = gas.h(T); T2 = gas.t_f_h(h, tol)
GLRoundTrip(T, tol) ==
    /\ gl_T' = T
    /\ gl_tol' = tol
    /\ gl_h' = enthalpy(T)
    /\ gl_res' = temperature_from_enthalpy(enthalpy(T), tol)
    /\ last' = "gl_round_trip"
    /\ UNCHANGED others_gl

---------------------------------------------------------------------------
(* Design methods: a named bag of unknowns (with bounds), targets and      *)
(* equations; "extends" lists the child design methods merged into it and  *)
(* "methods" the design methods a solver problem was extended with.        *)

EmptyDM == [ extends |-> {}, unknowns |-> {}, targets |-> {}, equations |-> {},
             methods |-> {} ]

Unknown(name, lower, upper) == [ name |-> name, lower |-> lower, upper |-> upper ]

add_unknown(dm, name, lower, upper) ==
    [ dm EXCEPT !.unknowns = @ \cup { Unknown(name, lower, upper) } ]
add_target(dm, name) == [ dm EXCEPT !.targets = @ \cup { name } ]
add_equation(dm, eq) == [ dm EXCEPT !.equations = @ \cup { eq } ]
\* dm.extend(child.design_methods[name])
extend_child(dm, child, name) == [ dm EXCEPT !.extends = @ \cup { << child, name >> } ]

\* solver.extend(sys.design_methods[name])
solver_extend(problem, dms, name) ==
    [ extends   |-> problem.extends \cup dms[name].extends,
      unknowns  |-> problem.unknowns \cup dms[name].unknowns,
      targets   |-> problem.targets \cup dms[name].targets,
      equations |-> problem.equations \cup dms[name].equations,
      methods   |-> problem.methods \cup { name } ]

UnknownNames(dm) == { u.name : u \in dm.unknowns }

\* the solver keeps an unknown within its bounds
Clip(v, u) ==
    IF QLt(v, u.lower) THEN u.lower
    ELSE IF QLt(u.upper, v) THEN u.upper
    ELSE v

\* the value the solver gives to variable name: the proposed value, kept
\* within the bounds of every unknown of that name; old when it is no unknown
SolverValue(problem, name, old, proposed) ==
    LET us == { u \in problem.unknowns : u.name = name }
    IN  IF us = {} THEN old
        ELSE LET u == CHOOSE x \in us : TRUE IN Clip(proposed, u)

\* iterations of one solve
MaxSolverSteps == 2

---------------------------------------------------------------------------
(* Compressor (src/pyturbo/systems/compressor/compressor.py).              *)

CompressorConfigs == { "none", "fan", "booster", "hpc" }
HtrName == "geom.blade_hub_to_tip_ratio"

CompressorScalingNoHpc(config) ==
    IF config = "booster"
    THEN add_unknown(extend_child(EmptyDM, "aero", "scaling_booster"),
                     HtrName, NegInf, Q(999, 1000))
    ELSE extend_child(EmptyDM, "aero", "scaling")

CompressorScalingUnbounded(config) ==
    IF config = "booster"
    THEN add_unknown(extend_child(EmptyDM, "aero", "scaling_booster"),
                     HtrName, NegInf, PosInf)
    ELSE IF config = "hpc"
    THEN extend_child(EmptyDM, "aero", "scaling_hpc")
    ELSE extend_child(EmptyDM, "aero", "scaling")

\* the "scaling" design method built by setup(config)
CompressorScaling(config) ==
    IF config = "booster"
    THEN add_unknown(extend_child(EmptyDM, "aero", "scaling_booster"),
                     HtrName, NegInf, Q(999, 1000))
    ELSE IF config = "hpc"
    THEN extend_child(EmptyDM, "aero", "scaling_hpc")
    ELSE extend_child(EmptyDM, "aero", "scaling")

\* hub-to-tip ratios a config file may load, and those a solver may propose
CmpHtrData == { Q(3, 10), Q(4, 5) }
CmpHtrProposed == { Q(1, 2), Q(999, 1000), QOne, Q(3, 2) }
CmpSpeeds == { QI(1), QI(5000) }

CmpInit ==
    /\ cmp_config = "none"
    /\ cmp_dm = [ m \in { "scaling" } |-> CompressorScaling("none") ]
    /\ cmp_val = [ sh_in_N |-> QOne, N |-> QOne, htr |-> Q(1, 2) ]
    /\ cmp_problem = EmptyDM
    /\ cmp_steps = 0

CompressorComputeWritesShaft(val) ==
    [ val EXCEPT !.N = val.sh_in_N, !.sh_in_N = val.N ]
\* Compressor.compute
CompressorCompute(val) == [ val EXCEPT !.N = val.sh_in_N ]

\* Compressor("cmp", config=config): setup, then the config file's values
CmpConstruct(config, htr) ==
    /\ config = "none" => htr = Q(1, 2)
    /\ cmp_config' = config
    /\ cmp_dm' = [ m \in { "scaling" } |-> CompressorScaling(config) ]
    /\ cmp_val' = [ sh_in_N |-> QOne, N |-> QOne, htr |-> htr ]
    /\ cmp_problem' = EmptyDM
    /\ cmp_steps' = 0
    /\ last' = "cmp_construct"
    /\ UNCHANGED others_cmp

\* sys.sh_in.N = n
CmpSetSpeed(n) ==
    /\ cmp_val' = [ cmp_val EXCEPT !.sh_in_N = n ]
    /\ UNCHANGED << cmp_config, cmp_dm, cmp_problem, cmp_steps >>
    /\ last' = "cmp_set"
    /\ UNCHANGED others_cmp

\* sys.run_once()
CmpRunOnce ==
    /\ cmp_val' = CompressorCompute(cmp_val)
    /\ UNCHANGED << cmp_config, cmp_dm, cmp_problem, cmp_steps >>
    /\ last' = "cmp_compute"
    /\ UNCHANGED others_cmp

\* sys.add_unknown("sh_in.N")
CmpAddUnknown ==
    /\ cmp_steps = 0
    /\ cmp_problem' = add_unknown(cmp_problem, "sh_in.N", NegInf, PosInf)
    /\ UNCHANGED << cmp_config, cmp_dm, cmp_val, cmp_steps >>
    /\ last' = "cmp_add_unknown"
    /\ UNCHANGED others_cmp

\* solver.extend(sys.design_methods["scaling"])
CmpSolverExtend ==
    /\ cmp_steps = 0
    /\ cmp_problem' = solver_extend(cmp_problem, cmp_dm, "scaling")
    /\ UNCHANGED << cmp_config, cmp_dm, cmp_val, cmp_steps >>
    /\ last' = "cmp_extend"
    /\ UNCHANGED others_cmp

\* one solver iteration: new values for the unknowns, then a recompute
CmpSolverStep(n, htr) ==
    /\ cmp_problem.unknowns # {}
    /\ cmp_steps < MaxSolverSteps
    /\ cmp_val' = CompressorCompute(
           [ cmp_val EXCEPT
               !.sh_in_N = SolverValue(cmp_problem, "sh_in.N", @, n),
               !.htr = SolverValue(cmp_problem, HtrName, @, htr) ])
    /\ cmp_steps' = cmp_steps + 1
    /\ UNCHANGED << cmp_config, cmp_dm, cmp_problem >>
    /\ last' = "cmp_solver_step"
    /\ UNCHANGED others_cmp

---------------------------------------------------------------------------
(* Turbine (src/pyturbo/systems/turbine/turbine.py).                       *)

TurbineConfigs == { "none", "hpt", "lpt" }
BhrName == "geom.blade_height_ratio"

\* self.add_unknown("fl_in.W"): the system's own off-design problem
TurbineOffDesignNone == {}
TurbineOffDesign == { Unknown("fl_in.W", NegInf, PosInf) }

\* the design method "off_design_standalone"
TurbineOffDesignStandalone ==
    add_target(add_target(EmptyDM, "sh_out.N"), "sh_out.power")

TurbineScalingWide ==
    add_equation(
        add_target(
            add_unknown(
                add_unknown(EmptyDM, BhrName, NegInf, PosInf),
                "aero.Ncdes", NegInf, PosInf),
            "aero.psi"),
        "aero.Ncqdes == 100.0")
\* the design method "scaling"
TurbineScaling ==
    add_equation(
        add_target(
            add_unknown(
                add_unknown(EmptyDM, BhrName, QZero, QOne),
                "aero.Ncdes", NegInf, PosInf),
            "aero.psi"),
        "aero.Ncqdes == 100.0")

TurbineMethods == { "off_design_standalone", "scaling" }

TurbineDesignMethods ==
    [ m \in TurbineMethods |->
        IF m = "scaling" THEN TurbineScaling ELSE TurbineOffDesignStandalone ]

\* blade-height ratios a config file may load, values a solver may propose
TurBhrData == { Q(1, 5), Q(1, 2) }
TurProposed == { Q(-1, 2), QZero, Q(1, 2), QOne, QI(2) }

TurInit ==
    /\ tur_config = "none"
    /\ tur_dm = TurbineDesignMethods
    /\ tur_offdesign = TurbineOffDesign
    /\ tur_val = [ bhr |-> Q(1, 2), Ncdes |-> QI(100), W |-> QOne ]
    /\ tur_problem = EmptyDM
    /\ tur_steps = 0

\* Turbine("tur", config=config): setup, then the config file's values
TurConstruct(config, bhr) ==
    /\ config = "none" => bhr = Q(1, 2)
    /\ tur_config' = config
    /\ tur_dm' = TurbineDesignMethods
    /\ tur_offdesign' = TurbineOffDesign
    /\ tur_val' = [ bhr |-> bhr, Ncdes |-> QI(100), W |-> QOne ]
    /\ tur_problem' = EmptyDM
    /\ tur_steps' = 0
    /\ last' = "tur_construct"
    /\ UNCHANGED others_tur

\* solver.extend(sys.design_methods[name])
TurSolverExtend(name) ==
    /\ tur_steps = 0
    /\ tur_problem' = solver_extend(tur_problem, tur_dm, name)
    /\ UNCHANGED << tur_config, tur_dm, tur_offdesign, tur_val, tur_steps >>
    /\ last' = "tur_extend"
    /\ UNCHANGED others_tur

\* the problem the solver works on: its own and the system's off-design one
TurAssembled ==
    [ tur_problem EXCEPT !.unknowns = @ \cup tur_offdesign ]

\* one solver iteration: new values for the unknowns
TurSolverStep(bhr, nc, w) ==
    /\ tur_steps < MaxSolverSteps
    /\ tur_val' = [ bhr   |-> SolverValue(TurAssembled, BhrName, tur_val.bhr, bhr),
                    Ncdes |-> SolverValue(TurAssembled, "aero.Ncdes", tur_val.Ncdes, nc),
                    W     |-> SolverValue(TurAssembled, "fl_in.W", tur_val.W, w) ]
    /\ tur_steps' = tur_steps + 1
    /\ UNCHANGED << tur_config, tur_dm, tur_offdesign, tur_problem >>
    /\ last' = "tur_solver_step"
    /\ UNCHANGED others_tur

---------------------------------------------------------------------------
(* Gas law, continued: the polytropic pressure ratio                       *)
(*   pr = (T_out / T_in)^(gamma / ((gamma - 1) eff_poly)),  gamma = 7/5,   *)
(* computed as exp(e * ln(tr)) in fixed point (FxScale-ths), both series   *)
(* cut after the cubic term.                                               *)

FxScale == 10000

FxLn(x) ==
    x - ((x * x) \div (2 * FxScale))
      + ((((x * x) \div FxScale) * x) \div (3 * FxScale))

FxExp(y) ==
    FxScale + y + ((y * y) \div (2 * FxScale))
      + ((((y * y) \div FxScale) * y) \div (6 * FxScale))

pressure_ratio(T_in, T_out, eff_poly) ==
    LET e == QDiv(Q(7, 2), eff_poly)
        x == QFloor(QMul(QSub(QDiv(T_out, T_in), QOne), QI(FxScale)))
        y == (e[1] * FxLn(x)) \div e[2]
    IN  Q(FxExp(y), FxScale)

---------------------------------------------------------------------------
(* PropellerAero (src/pyturbo/systems/propeller/propeller_aero.py).        *)

\* np.pi
Pi == Q(22, 7)
\* tol of gas.t_f_h, in the temperature resolution of the model
PropTol == Q(1, 8)
\* 1 hp in W
HpInW == Q(7457, 10)

\* The inwards are the defaults of setup; the port values (fl_in, sh_in) are
\* those of a port as constructed, which pyturbo.ports defines: the model
\* takes an operating point on its grid (density 1 kg/m3, utip 11 m/s).
PropDefaultIn ==
    [ Pt |-> QI(86100), Tt |-> QI(300), W |-> QOne,
      N |-> QI(105), power |-> QI(10040),
      radius |-> QOne, inlet_area |-> QOne,
      eff_poly |-> Q(9, 10), phiP |-> Q(2, 5), xnd |-> QI(10000) ]

PropDefaultOut ==
    [ utip |-> QZero, phi |-> QZero, psi |-> QZero,
      pr |-> QOne, tr |-> QOne, pcnr |-> QI(100),
      power |-> QI(100), thrust |-> QI(100), eps_psi |-> QZero ]

\* delta_h = sh_in.power / fl_in.W
PropDeltaH(in) == QDiv(in.power, in.W)

\* utip = sh_in.N * pi / 30 * radius
PropUtip(in) == QMul(QDiv(QMul(in.N, Pi), QI(30)), in.radius)

\* vm = fl_in.W / (rho * inlet_area)
PropVm(in) == QDiv(in.W, QMul(density(in.Pt, in.Tt), in.inlet_area))

\* psi = 1 - phi / phiP
PropPsi(phi, phiP) == QSub(QOne, QDiv(phi, phiP))

PropEpsPsiLinear(delta_h, utip, psi) == QSub(QDiv(delta_h, utip), psi)
\* eps_psi = delta_h / utip**2 - psi
PropEpsPsi(delta_h, utip, psi) == QSub(QDiv(delta_h, QMul(utip, utip)), psi)

\* thrust = inlet_area * fl_in.Pt * (1.0 - pr)
PropThrust(in, pr) == QMul(QMul(in.inlet_area, in.Pt), QSub(QOne, pr))

\* h = gas.h(fl_in.Tt) + delta_h
PropEnthalpy(in) == QAdd(enthalpy(in.Tt), PropDeltaH(in))

PropReadUtipStale(before, now) == before.utip
\* self.utip as read after its assignment: the value this compute assigned
\* (before: the outwards at entry; now: the outwards assigned so far)
PropReadUtip(before, now) == now.utip

\* PropellerAero.compute: the outwards it leaves and how it ends.  A
\* division by zero or a failed inversion raises where it stands: what was
\* assigned before stays assigned.
PropellerCompute(in, out) ==
    IF QIsZero(in.W)
    THEN [ out |-> out, status |-> "ZeroDivisionError" ]
    ELSE
    LET delta_h == PropDeltaH(in)
        r == temperature_from_enthalpy(PropEnthalpy(in), PropTol)
    IN  IF ~r.ok
        THEN [ out |-> out, status |-> "ConvergenceError" ]
        ELSE IF QIsZero(in.Tt)
        THEN [ out |-> out, status |-> "ZeroDivisionError" ]
        ELSE
        LET Tt_out == r.T
            pr == pressure_ratio(in.Tt, Tt_out, in.eff_poly)
            utip == PropUtip(in)
            o1 == [ out EXCEPT !.tr = QDiv(Tt_out, in.Tt), !.pr = pr, !.utip = utip ]
            self_utip == PropReadUtip(out, o1)
        IN  IF QIsZero(QMul(density(in.Pt, in.Tt), in.inlet_area)) \/ QIsZero(self_utip)
            THEN [ out |-> o1, status |-> "ZeroDivisionError" ]
            ELSE
            LET phi == QDiv(PropVm(in), self_utip)
                psi == PropPsi(phi, in.phiP)
            IN  [ out |->
                    [ o1 EXCEPT
                        !.phi = phi,
                        !.psi = psi,
                        !.eps_psi = PropEpsPsi(delta_h, self_utip, psi),
                        !.pcnr = QMul(QDiv(in.N, in.xnd), QI(100)),
                        !.power = QDiv(in.power, HpInW),
                        !.thrust = PropThrust(in, pr) ],
                  status |-> "ok" ]

\* inputs at and beyond the edge of the physical domain
PropEdgeInputs ==
    { [ PropDefaultIn EXCEPT !.Pt = QI(pt), !.Tt = QI(tt), !.W = QI(w),
                             !.N = QI(n), !.power = QI(pw) ] :
        pt \in { 86100, 0, -86100 }, tt \in { 300, 0, -300 }, w \in { 0, 2 },
        n \in { 0, 105 }, pw \in { 20080 } }

\* the inputs the drivers of the model set
PropInputs ==
    { [ PropDefaultIn EXCEPT !.Pt = QI(pt), !.Tt = QI(300), !.W = QI(w),
                             !.N = QI(n), !.power = QI(pw), !.inlet_area = QI(a) ] :
        pt \in { 86100 }, w \in { 0, 2, 22 }, n \in { 0, 105 },
        pw \in { 0, 132, 20080, 500000000 }, a \in { 1, 5 } }

PropInit ==
    /\ prop_in = PropDefaultIn
    /\ prop_out = PropDefaultOut
    /\ prop_status = "none"

\* PropellerAero("sys")
PropConstruct ==
    /\ prop_in' = PropDefaultIn
    /\ prop_out' = PropDefaultOut
    /\ prop_status' = "none"
    /\ last' = "prop_construct"
    /\ UNCHANGED others_prop

\* sys.fl_in.W = ...; sys.sh_in.N = ...; ...
PropSetInputs(in) ==
    /\ prop_in' = in
    /\ UNCHANGED << prop_out, prop_status >>
    /\ last' = "prop_set"
    /\ UNCHANGED others_prop

\* sys.run_once()
PropRunOnce ==
    LET res == PropellerCompute(prop_in, prop_out)
    IN  /\ prop_out' = res.out
        /\ prop_status' = res.status
        /\ UNCHANGED prop_in
        /\ last' = "prop_compute"
        /\ UNCHANGED others_prop

---------------------------------------------------------------------------
(* PowerGearBox (src/pyturbo/systems/power_gear_box/power_gear_box.py).    *)

\* speed_ratio is the inward of setup; sh_in and sh_out are shaft ports as
\* constructed (the operating point of PropDefaultIn)
PgbDefaultIn == [ speed_ratio |-> QOne, N |-> QI(105), power |-> QI(10040) ]
PgbDefaultOut == [ N |-> QI(105), power |-> QI(10040) ]

\* PowerGearBox.compute: sh_out.N = sh_in.N / speed_ratio raises on a zero
\* speed_ratio before anything is assigned; sh_out.power = sh_in.power
PowerGearBoxCompute(in, out) ==
    IF QIsZero(in.speed_ratio)
    THEN [ out |-> out, status |-> "ZeroDivisionError" ]
    ELSE [ out |-> [ N |-> QDiv(in.N, in.speed_ratio), power |-> in.power ],
           status |-> "ok" ]

PgbInputs ==
    { [ speed_ratio |-> sr, N |-> QI(n), power |-> QI(pw) ] :
        sr \in { QZero, QOne, QI(10), Q(1, 2), QI(-1) },
        n \in { 0, 105, 5000 }, pw \in { 0, 10040 } }

PgbInit ==
    /\ pgb_in = PgbDefaultIn
    /\ pgb_out = PgbDefaultOut
    /\ pgb_status = "none"

\* PowerGearBox("sys")
PgbConstruct ==
    /\ pgb_in' = PgbDefaultIn
    /\ pgb_out' = PgbDefaultOut
    /\ pgb_status' = "none"
    /\ last' = "pgb_construct"
    /\ UNCHANGED others_pgb

\* sys.speed_ratio = ...; sys.sh_in.N = ...; sys.sh_in.power = ...
PgbSetInputs(in) ==
    /\ pgb_in' = in
    /\ UNCHANGED << pgb_out, pgb_status >>
    /\ last' = "pgb_set"
    /\ UNCHANGED others_pgb

\* sys.run_once()
PgbRunOnce ==
    LET res == PowerGearBoxCompute(pgb_in, pgb_out)
    IN  /\ pgb_out' = res.out
        /\ pgb_status' = res.status
        /\ UNCHANGED pgb_in
        /\ last' = "pgb_compute"
        /\ UNCHANGED others_pgb

---------------------------------------------------------------------------
(* TurbopropGeom (src/pyturbo/systems/turboprop/turboprop_geom.py).        *)

\* numpy arithmetic on float64: a division by zero gives -inf, +inf or nan
\* (with a warning) where python's own float raises
NaN == << 0, 0 >>
XIsFinite(a) == a[2] # 0
XIsNaN(a) == a = NaN
XSign(a) == IF a[1] > 0 THEN 1 ELSE IF a[1] < 0 THEN -1 ELSE 0
XAdd(a, b) ==
    IF XIsNaN(a) \/ XIsNaN(b) THEN NaN
    ELSE IF XIsFinite(a) /\ XIsFinite(b) THEN QAdd(a, b)
    ELSE IF ~XIsFinite(a) /\ ~XIsFinite(b) /\ a # b THEN NaN
    ELSE IF XIsFinite(a) THEN b
    ELSE a
XMul(a, b) ==
    IF XIsNaN(a) \/ XIsNaN(b) THEN NaN
    ELSE IF XIsFinite(a) /\ XIsFinite(b) THEN QMul(a, b)
    ELSE << XSign(a) * XSign(b), 0 >>
XDiv(a, b) ==
    IF XIsNaN(a) \/ XIsNaN(b) THEN NaN
    ELSE IF ~XIsFinite(a) /\ ~XIsFinite(b) THEN NaN
    ELSE IF ~XIsFinite(b) THEN QZero
    ELSE IF QIsZero(b) \/ ~XIsFinite(a) THEN << XSign(a) * (IF b[1] < 0 THEN -1 ELSE 1), 0 >>
    ELSE QDiv(a, b)
\* python's max(a, b): b when b > a, else a (a nan first argument stays)
PyMax(a, b) == IF QLt(a, b) THEN b ELSE a

\* the largest integer whose square is <= n
RECURSIVE ISqrtIn(_, _, _)
ISqrtIn(n, lo, hi) ==
    IF hi - lo <= 1 THEN lo
    ELSE LET mid == (lo + hi) \div 2
         IN  IF mid * mid <= n THEN ISqrtIn(n, mid, hi) ELSE ISqrtIn(n, lo, mid)
\* n < 2^30
ISqrt(n) == ISqrtIn(n, 0, 32768)
\* resolution of a square root that is not a ratio of squares
SqrtScale == 1000
\* np.sqrt: exact on a ratio of squares, else rounded down to 1/SqrtScale
QSqrt(a) ==
    IF a[1] < 0 THEN NaN
    ELSE LET rn == ISqrt(a[1])
             rd == ISqrt(a[2])
         IN  IF rn * rn = a[1] /\ rd * rd = a[2] THEN Q(rn, rd)
             ELSE Q(ISqrt((a[1] * SqrtScale * SqrtScale) \div a[2]), SqrtScale)

\* the cowl slopes of the model [deg] and np.tan(np.radians(slope))
GeomSlopes == { -45, -20, 0, 20, 45 }
TanDeg(slope) ==
    CASE slope = -45 -> QI(-1)
      [] slope = -20 -> Q(-364, 1000)
      [] slope = 0 -> QZero
      [] slope = 20 -> Q(364, 1000)
      [] slope = 45 -> QOne
\* pyturbo.utils.slope_to_drdz
slope_to_drdz(slope) == TanDeg(slope)

\* np.r_[r, z]
Kp(r, z) == [ r |-> r, z |-> z ]
KpAdd(a, b) == [ r |-> XAdd(a.r, b.r), z |-> XAdd(a.z, b.z) ]
\* a KeypointsPort as constructed
KeypointsDefault ==
    [ inlet_hub |-> Kp(QZero, QZero), inlet_tip |-> Kp(QOne, QZero),
      exit_hub |-> Kp(QZero, QOne), exit_tip |-> Kp(QOne, QOne) ]

GeomDefaultIn ==
    [ propeller_diameter |-> QI(5),
      propeller_length_ratio |-> Q(1, 5),
      core_inlet_radius_ratio |-> Q(1, 4),
      core_exit_radius_ratio |-> QOne,
      core_length_ratio |-> QI(3),
      shaft_radius_ratio |-> Q(1, 10),
      core_cowl_slope |-> -20,
      primary_nozzle_length_ratio |-> Q(1, 2),
      pri_nozzle_area_ratio |-> Q(9, 10) ]

GeomDefaultOut ==
    [ propeller_kp |-> KeypointsDefault,
      core_kp |-> KeypointsDefault,
      primary_nozzle_kp |-> KeypointsDefault,
      propeller_inlet_tip_kp |-> Kp(QOne, QOne),
      pri_nozzle_exit_kp |-> [ rz |-> Kp(QZero, QZero), drdz |-> QZero ],
      propeller_module_length |-> QOne,
      engine_length |-> QOne ]

GeomDeclaredDiameterUnknown ==
    [ unknowns |-> { Unknown("propeller_diameter", NegInf, PosInf) },
      equations |-> {}, design_methods |-> {} ]
\* what TurbopropGeom.setup declares for a solver: nothing
GeomDeclared == [ unknowns |-> {}, equations |-> {}, design_methods |-> {} ]

GeomEngineLengthCoreOnly(propeller_length, core_length) == core_length
\* engine_length = propeller_length + core_length
GeomEngineLength(propeller_length, core_length) ==
    QAdd(propeller_length, core_length)

\* the primary nozzle exit tip: the radius from the area ratio, at the axial
\* position of the core exit tip
GeomNozzleExitTip(in, inlet_hub, inlet_tip, core_exit_tip) ==
    LET inlet_area_q_pi == QSub(QMul(inlet_tip.r, inlet_tip.r),
                                QMul(inlet_hub.r, inlet_hub.r))
    IN  Kp(QSqrt(QAdd(QMul(in.pri_nozzle_area_ratio, inlet_area_q_pi),
                      QMul(inlet_hub.r, inlet_hub.r))),
           core_exit_tip.z)

\* min_dz, dz, dr and pri_nozzle_exit_kp
GeomCowlDz(in, nozzle_exit_tip, core_exit_tip, primary_nozzle_length) ==
    PyMax(XDiv(QSub(nozzle_exit_tip.r, core_exit_tip.r), TanDeg(in.core_cowl_slope)),
          primary_nozzle_length)
GeomCowlExit(in, nozzle_exit_tip, core_exit_tip, primary_nozzle_length) ==
    LET dz == GeomCowlDz(in, nozzle_exit_tip, core_exit_tip, primary_nozzle_length)
        dr == XMul(dz, TanDeg(in.core_cowl_slope))
    IN  [ rz |-> KpAdd(core_exit_tip, Kp(dr, dz)),
          drdz |-> slope_to_drdz(in.core_cowl_slope) ]

\* TurbopropGeom.compute
TurbopropGeomCompute(in) ==
    LET propeller_radius == QDiv(in.propeller_diameter, QI(2))
        propeller_length == QMul(propeller_radius, in.propeller_length_ratio)
        core_inlet_radius == QMul(propeller_radius, in.core_inlet_radius_ratio)
        core_exit_radius == QMul(core_inlet_radius, in.core_exit_radius_ratio)
        core_length == QMul(core_inlet_radius, in.core_length_ratio)
        primary_nozzle_length == QMul(core_inlet_radius, in.primary_nozzle_length_ratio)
        p_inlet_hub == Kp(QZero, QZero)
        p_inlet_tip == Kp(propeller_radius, QZero)
        propeller_kp ==
            [ inlet_hub |-> p_inlet_hub,
              inlet_tip |-> p_inlet_tip,
              exit_hub |-> KpAdd(p_inlet_hub, Kp(QZero, propeller_length)),
              exit_tip |-> KpAdd(p_inlet_tip, Kp(QZero, propeller_length)) ]
        c_inlet_hub == Kp(QZero, propeller_length)
        c_exit_hub == KpAdd(c_inlet_hub, Kp(QZero, core_length))
        core_kp ==
            [ inlet_hub |-> c_inlet_hub,
              inlet_tip |-> Kp(core_inlet_radius, c_inlet_hub.z),
              exit_hub |-> c_exit_hub,
              exit_tip |-> Kp(core_exit_radius, c_exit_hub.z) ]
        n_inlet_hub == core_kp.exit_hub
        n_inlet_tip == core_kp.exit_tip
        n_exit_tip == GeomNozzleExitTip(in, n_inlet_hub, n_inlet_tip, core_kp.exit_tip)
        primary_nozzle_kp ==
            [ inlet_hub |-> n_inlet_hub,
              inlet_tip |-> n_inlet_tip,
              exit_hub |-> KpAdd(n_inlet_hub, Kp(QZero, primary_nozzle_length)),
              exit_tip |-> n_exit_tip ]
    IN  [ propeller_kp |-> propeller_kp,
          core_kp |-> core_kp,
          primary_nozzle_kp |-> primary_nozzle_kp,
          propeller_inlet_tip_kp |-> propeller_kp.inlet_tip,
          pri_nozzle_exit_kp |->
              GeomCowlExit(in, n_exit_tip, core_kp.exit_tip, primary_nozzle_length),
          propeller_module_length |-> propeller_length,
          engine_length |-> GeomEngineLength(propeller_length, core_length) ]

\* a few of GeomInputs
GeomFewInputs ==
    { [ GeomDefaultIn EXCEPT !.core_cowl_slope = slope,
                             !.primary_nozzle_length_ratio = pnl,
                             !.pri_nozzle_area_ratio = ar ] :
        slope \in { -20, 0 }, pnl \in { Q(1, 2), QI(3) }, ar \in { Q(9, 10), QI(4) } }

\* the inwards the drivers of the model set
GeomInputs ==
    { [ GeomDefaultIn EXCEPT !.propeller_length_ratio = plr,
                             !.core_exit_radius_ratio = cer,
                             !.core_cowl_slope = slope,
                             !.primary_nozzle_length_ratio = pnl,
                             !.pri_nozzle_area_ratio = ar ] :
        plr \in { Q(1, 5) }, cer \in { QOne, Q(1, 2) }, slope \in GeomSlopes,
        pnl \in { QZero, Q(1, 2), QI(3) }, ar \in { Q(9, 10), QOne, QI(4) } }

GeomInit ==
    /\ geom_in = GeomDefaultIn
    /\ geom_out = GeomDefaultOut
    /\ geom_problem = GeomDeclared

\* TurbopropGeom("sys")
GeomConstruct ==
    /\ geom_in' = GeomDefaultIn
    /\ geom_out' = GeomDefaultOut
    /\ geom_problem' = GeomDeclared
    /\ last' = "geom_construct"
    /\ UNCHANGED others_geom

\* sys.core_cowl_slope = ...; sys.primary_nozzle_length_ratio = ...; ...
GeomSetInputs(in) ==
    /\ geom_in' = in
    /\ UNCHANGED << geom_out, geom_problem >>
    /\ last' = "geom_set"
    /\ UNCHANGED others_geom

\* sys.run_once()
GeomRunOnce ==
    /\ geom_out' = TurbopropGeomCompute(geom_in)
    /\ UNCHANGED << geom_in, geom_problem >>
    /\ last' = "geom_compute"
    /\ UNCHANGED others_geom

---------------------------------------------------------------------------
(* The test session: what each test module imports, and from where.       *)

\* the names each package's __init__ binds with its import statements
\* (the same names its __all__ lists)
SystemsBound ==
    { "Atmosphere", "Combustor", "Compressor", "Inlet", "Nacelle", "Nozzle",
      "Turbine", "FanModule", "GasGenerator", "Turbofan" }
TurbopropBound == { "TurbopropAero", "Turboprop" }
PropellerBound == { "Propeller", "PropellerAero" }

\* the submodules of a package, which "from package import name" also finds
Submodules(pkg) ==
    CASE pkg = "pyturbo.systems" ->
           { "atmosphere", "combustor", "compressor", "inlet", "nacelle", "nozzle",
             "turbine", "fan_module", "gas_generator", "turbofan", "propeller",
             "turboprop", "power_gear_box", "torque_generator" }
      [] pkg = "pyturbo.systems.turboprop" ->
           { "turboprop_aero", "turboprop", "turboprop_geom" }
      [] pkg = "pyturbo.systems.propeller" -> { "propeller", "propeller_aero" }
      [] OTHER -> {}

\* packages whose __init__ is part of the sources at hand
KnownPackages ==
    { "pyturbo.systems", "pyturbo.systems.turboprop", "pyturbo.systems.propeller" }

Bound(pkg) ==
    CASE pkg = "pyturbo.systems" -> SystemsBound
      [] pkg = "pyturbo.systems.turboprop" -> TurbopropBound
      [] pkg = "pyturbo.systems.propeller" -> PropellerBound
      [] OTHER -> {}

\* from pkg import name: the attribute of the package, else its submodule.
\* A package whose __init__ is not at hand is taken to bind what is asked.
Resolves(pkg, name) ==
    \/ pkg \notin KnownPackages
    \/ name \in Bound(pkg)
    \/ name \in Submodules(pkg)

TestModules ==
    { "test_combustor", "test_compressor", "test_gas_generator", "test_nozzle_aero",
      "test_systems", "test_torque_generator", "test_turbine", "test_turboprop" }

\* the pyturbo imports at the top of each test module
TestImports(t) ==
    CASE t = "test_combustor" -> { << "pyturbo.systems", "Combustor" >> }
      [] t = "test_compressor" -> { << "pyturbo.systems.compressor", "Compressor" >> }
      [] t = "test_gas_generator" -> { << "pyturbo.systems", "GasGenerator" >> }
      [] t = "test_nozzle_aero" -> { << "pyturbo.systems.nozzle", "NozzleAero" >> }
      [] t = "test_systems" ->
           { << "pyturbo.systems.propeller", "Propeller" >>,
             << "pyturbo.systems.propeller", "PropellerAero" >>,
             << "pyturbo.systems.turboprop", "Turboprop" >>,
             << "pyturbo.systems.turboprop", "TurbopropAero" >>,
             << "pyturbo.systems.turboprop", "TurbopropGeom" >>,
             << "pyturbo.systems.power_gear_box", "PowerGearBox" >>,
             << "pyturbo.systems.torque_generator", "TorqueGenerator" >> }
      [] t = "test_torque_generator" -> { << "pyturbo.systems", "TorqueGenerator" >> }
      [] t = "test_turbine" -> { << "pyturbo.systems", "Turbine" >> }
      [] t = "test_turboprop" -> { << "pyturbo.systems.turboprop", "Turboprop" >> }

\* the outcome of importing a test module
ImportOutcome(t) ==
    IF \A i \in TestImports(t) : Resolves(i[1], i[2]) THEN "ok" ELSE "ImportError"

ImpInit == imp_status = [ t \in TestModules |-> "pending" ]

\* pytest collects (imports) one test module
CollectTest(t) ==
    /\ imp_status[t] = "pending"
    /\ imp_status' = [ imp_status EXCEPT ![t] = ImportOutcome(t) ]
    /\ last' = "collect"
    /\ UNCHANGED others_imp

---------------------------------------------------------------------------
(* Specifications.                                                         *)

Init ==
    /\ last = "construct"
    /\ GGInit
    /\ NozInit
    /\ GLInit
    /\ CmpInit
    /\ TurInit
    /\ PropInit
    /\ PgbInit
    /\ GeomInit
    /\ ImpInit

NextGG ==
    \/ \E cls \in GGClasses : GGConstruct(cls)
    \/ \E w \in GGFlows, fuel \in GGFuels : GGSetInputs(w, fuel)
    \/ GGRunOnce

NextNozzle ==
    \/ \E pt \in NozPts, pamb \in NozPambs : NozSet(pt, pamb)
    \/ NozRunDrivers
    \/ NozTransientStart
    \/ NozTransientStep

NextGasLaw ==
    \/ \E tol \in GLTols : GLRoundTrip(GLNextTemp, tol)

NextCompressor ==
    \/ \E c \in CompressorConfigs, htr \in CmpHtrData \cup { Q(1, 2) } :
          CmpConstruct(c, htr)
    \/ \E n \in CmpSpeeds : CmpSetSpeed(n)
    \/ CmpRunOnce
    \/ CmpAddUnknown
    \/ CmpSolverExtend
    \/ \E n \in CmpSpeeds, htr \in CmpHtrProposed : CmpSolverStep(n, htr)

NextTurbine ==
    \/ \E c \in TurbineConfigs, bhr \in TurBhrData : TurConstruct(c, bhr)
    \/ \E m \in TurbineMethods : TurSolverExtend(m)
    \/ \E bhr \in TurProposed, nc \in { QI(100), QI(101) }, w \in { QOne, QI(80) } :
          TurSolverStep(bhr, nc, w)

NextPropeller ==
    \/ PropConstruct
    \/ \E in \in PropInputs : PropSetInputs(in)
    \/ PropRunOnce

NextGeom ==
    \/ GeomConstruct
    \/ \E in \in GeomInputs : GeomSetInputs(in)
    \/ GeomRunOnce

\* test_systems.py: one system is built and run at a time; the others stay
\* as constructed
SutCompressor == PropInit /\ PgbInit /\ GeomInit
SutPropeller == CmpInit /\ PgbInit /\ GeomInit
SutGearBox == CmpInit /\ PropInit /\ GeomInit
SutGeom == CmpInit /\ PropInit /\ PgbInit

NextRecompute ==
    \/ \E c \in CompressorConfigs, htr \in CmpHtrData :
          SutCompressor /\ CmpConstruct(c, htr)
    \/ \E n \in CmpSpeeds : SutCompressor /\ CmpSetSpeed(n)
    \/ SutCompressor /\ CmpRunOnce
    \/ SutPropeller /\ PropConstruct
    \/ \E in \in PropEdgeInputs : SutPropeller /\ PropSetInputs(in)
    \/ SutPropeller /\ PropRunOnce
    \/ SutGearBox /\ PgbConstruct
    \/ \E in \in PgbInputs : SutGearBox /\ PgbSetInputs(in)
    \/ SutGearBox /\ PgbRunOnce
    \/ SutGeom /\ GeomConstruct
    \/ \E in \in GeomFewInputs : SutGeom /\ GeomSetInputs(in)
    \/ SutGeom /\ GeomRunOnce

NextImports ==
    \/ \E t \in TestModules : CollectTest(t)

\* construction of the systems and of the problems a solver takes from them
NextDeclarations ==
    \/ \E c \in CompressorConfigs, htr \in CmpHtrData \cup { Q(1, 2) } :
          CmpConstruct(c, htr)
    \/ CmpSolverExtend
    \/ \E c \in TurbineConfigs, bhr \in TurBhrData : TurConstruct(c, bhr)
    \/ \E m \in TurbineMethods : TurSolverExtend(m)
    \/ GeomConstruct
    \/ GeomRunOnce

SpecGG == Init /\ [][NextGG]_vars
SpecNozzle == Init /\ [][NextNozzle]_vars
SpecGasLaw == Init /\ [][NextGasLaw]_vars
SpecCompressor == Init /\ [][NextCompressor]_vars
SpecTurbine == Init /\ [][NextTurbine]_vars
SpecPropeller == Init /\ [][NextPropeller]_vars
SpecGeom == Init /\ [][NextGeom]_vars
SpecRecompute == Init /\ [][NextRecompute]_vars
SpecImports == Init /\ [][NextImports]_vars
SpecDeclarations == Init /\ [][NextDeclarations]_vars

---------------------------------------------------------------------------
(* Properties.                                                             *)

\* C1: after a recompute of the combustor, the gas generator or the torque
\* generator, the outlet mass flow is exactly the inlet mass flow plus the
\* fuel mass flow, for every inlet flow and every fuel flow >= 0.
C1_MassConservation ==
    last = "gg_run_once" =>
        /\ gg_fl_out_W = QAdd(gg_fl_in_W, gg_fuel_W)
        /\ QSub(gg_fl_out_W, gg_fl_in_W) = gg_fuel_W

\* the gas generator of the test: 80 + 0.1 = 80.1
C1_Witness ==
    /\ last = "gg_run_once"
    /\ gg_cls = "GasGenerator"
    /\ gg_fl_in_W = QI(80)
    /\ gg_fuel_W = Q(1, 10)
    /\ gg_fl_out_W = Q(801, 10)

NozRecomputed == last \in { "noz_compute", "noz_transient" }

\* C2: after every nozzle recompute: ideal Mach < 1 gives mach = ideal Mach
\* and exit static pressure = ambient pressure; ideal Mach >= 1 gives
\* mach = 1 exactly and the sonic exit static pressure (which is not below
\* the ambient pressure).  The Mach number never exceeds 1.
C2_NozzleBranches ==
    /\ noz_mach <= MachOne
    /\ NozRecomputed =>
         LET ideal == IdealMach(noz_Pt, noz_pamb)
         IN  /\ ideal < MachOne => noz_mach = ideal /\ noz_ps = noz_pamb
             /\ ideal >= MachOne =>
                   /\ noz_mach = MachOne
                   /\ noz_ps = StaticP(noz_Pt, MachOne)
                   /\ noz_ps >= noz_pamb

\* the choked test: Pt = 1405 hPa expanded to 1 hPa, after an unchoked run
C2_Witness ==
    /\ last = "noz_compute"
    /\ noz_Pt = 1405
    /\ noz_pamb = 1
    /\ IdealMach(noz_Pt, noz_pamb) > MachOne
    /\ noz_mach = MachOne
    /\ noz_ps = 742
    /\ noz_prev_mach = 7

\* C3: the branch is decided again on every recompute from the current
\* inputs: a recompute with ideal Mach < 1 gives the subsonic outputs even
\* when the one before was choked, and one with ideal Mach >= 1 gives
\* mach = 1 even when the one before was not.
C3_BranchNotRetained ==
    NozRecomputed =>
        LET ideal == IdealMach(noz_Pt, noz_pamb)
        IN  /\ (noz_prev_mach = MachOne /\ ideal < MachOne) =>
                  (noz_mach = ideal /\ noz_mach < MachOne /\ noz_ps = noz_pamb)
            /\ (noz_prev_mach < MachOne /\ ideal >= MachOne) =>
                  noz_mach = MachOne

\* choked before, subsonic now
C3_Witness ==
    /\ NozRecomputed
    /\ noz_prev_mach = MachOne
    /\ noz_mach = 7
    /\ noz_ps = noz_pamb

CmpVariant(config) ==
    CASE config = "booster" -> "scaling_booster"
      [] config = "hpc" -> "scaling_hpc"
      [] OTHER -> "scaling"

\* C5: the "scaling" design method of a Compressor extends exactly one aero
\* design method: scaling_booster for config "booster", scaling_hpc for
\* "hpc", scaling for every other config; setup decides it and neither a
\* compute nor a solver operation changes it.
C5_VariantSelection ==
    /\ cmp_dm["scaling"].extends = { << "aero", CmpVariant(cmp_config) >> }
    /\ Cardinality(cmp_dm["scaling"].extends) = 1
    /\ "scaling" \in cmp_problem.methods =>
          cmp_problem.extends = { << "aero", CmpVariant(cmp_config) >> }

\* an hpc compressor after a solver iteration on its scaling method
C5_Witness ==
    /\ last = "cmp_solver_step"
    /\ cmp_config = "hpc"
    /\ "scaling" \in cmp_problem.methods
    /\ cmp_dm["scaling"].extends = { << "aero", "scaling_hpc" >> }

\* C6: the Compressor "scaling" design method holds the unknown
\* geom.blade_hub_to_tip_ratio exactly when the config is "booster"; its
\* upper bound is 1 - 1e-3 < 1, and a solver iteration on a problem with
\* that unknown leaves the hub-to-tip ratio below 1.
C6_HubToTipUnknown ==
    LET us == { u \in cmp_dm["scaling"].unknowns : u.name = HtrName }
    IN  /\ (us # {}) <=> (cmp_config = "booster")
        /\ \A u \in us : u.upper = Q(999, 1000) /\ QLt(u.upper, QOne)
        /\ (last = "cmp_solver_step" /\ HtrName \in UnknownNames(cmp_problem)) =>
              QLt(cmp_val.htr, QOne)

\* a booster whose solver was held at the upper bound
C6_Witness ==
    /\ last = "cmp_solver_step"
    /\ cmp_config = "booster"
    /\ HtrName \in UnknownNames(cmp_problem)
    /\ cmp_val.htr = Q(999, 1000)

\* C7: the Turbine "scaling" design method has exactly the two unknowns
\* geom.blade_height_ratio (bounds 0 and 1) and aero.Ncdes, and two
\* equations: the target aero.psi and aero.Ncqdes == 100.0; a solver
\* iteration on it leaves the blade-height ratio within [0, 1].
C7_TurbineScalingSquare ==
    LET dm == tur_dm["scaling"]
    IN  /\ UnknownNames(dm) = { BhrName, "aero.Ncdes" }
        /\ Cardinality(dm.unknowns) = 2
        /\ dm.targets = { "aero.psi" }
        /\ dm.equations = { "aero.Ncqdes == 100.0" }
        /\ Cardinality(dm.targets) + Cardinality(dm.equations) = 2
        /\ \A u \in dm.unknowns :
              u.name = BhrName => u.lower = QZero /\ u.upper = QOne
        /\ (last = "tur_solver_step" /\ "scaling" \in tur_problem.methods) =>
              QLe(QZero, tur_val.bhr) /\ QLe(tur_val.bhr, QOne)

\* a scaling solve that moved both unknowns, the ratio to its upper bound
C7_Witness ==
    /\ last = "tur_solver_step"
    /\ tur_problem.methods = { "scaling" }
    /\ tur_val.bhr = QOne
    /\ tur_val.Ncdes = QI(101)

\* C8: the Turbine "off_design_standalone" design method has the targets
\* sh_out.N and sh_out.power; a solver extended with it works on a problem
\* with exactly those two targets and with fl_in.W among its unknowns.
C8_OffDesignStandalone ==
    /\ tur_dm["off_design_standalone"].targets = { "sh_out.N", "sh_out.power" }
    /\ tur_problem.methods = { "off_design_standalone" } =>
          /\ TurAssembled.targets = { "sh_out.N", "sh_out.power" }
          /\ "fl_in.W" \in UnknownNames(TurAssembled)

\* an off-design solve that moved the inlet mass flow
C8_Witness ==
    /\ last = "tur_solver_step"
    /\ tur_problem.methods = { "off_design_standalone" }
    /\ tur_val.W = QI(80)

PropComputed == last = "prop_compute" /\ prop_status = "ok"

\* C9: after every successful recompute of PropellerAero
\*   utip = sh_in.N pi / 30 radius,  phi = (fl_in.W / (rho inlet_area)) / utip,
\*   psi = 1 - phi / phiP,  eps_psi = (sh_in.power / fl_in.W) / utip^2 - psi;
\* so eps_psi = 0 exactly when the specific shaft work is
\* utip^2 (1 - phi / phiP), and then the shaft power is zero exactly when
\* phi = phiP.
C9_LoadCoefficient ==
    PropComputed =>
        LET in == prop_in
            o == prop_out
            rho == density(in.Pt, in.Tt)
            work == QDiv(in.power, in.W)
        IN  /\ QMul(o.utip, QI(30)) = QMul(QMul(in.N, Pi), in.radius)
            /\ QMul(QMul(o.phi, o.utip), QMul(rho, in.inlet_area)) = in.W
            /\ QMul(QSub(QOne, o.psi), in.phiP) = o.phi
            /\ QMul(QAdd(o.eps_psi, o.psi), QMul(o.utip, o.utip)) = work
            /\ QIsZero(o.eps_psi) <=>
                  work = QMul(QMul(o.utip, o.utip),
                              QSub(QOne, QDiv(o.phi, in.phiP)))
            /\ QIsZero(o.eps_psi) => (QIsZero(in.power) <=> o.phi = in.phiP)

\* the off-design equation met at phi = phiP with no shaft power
C9_Witness ==
    /\ PropComputed
    /\ QIsZero(prop_out.eps_psi)
    /\ prop_out.phi = prop_in.phiP
    /\ QIsZero(prop_in.power)
    /\ prop_out.utip = QI(11)

\* C10: the thrust of PropellerAero is inlet_area (Pt_exit - Pt_inlet) with
\* Pt_exit = pr fl_in.Pt: positive when pr > 1, zero when pr = 1.
C10_ThrustFromPressureRise ==
    PropComputed =>
        LET in == prop_in
            o == prop_out
        IN  /\ o.thrust = QMul(in.inlet_area, QSub(QMul(o.pr, in.Pt), in.Pt))
            /\ QLt(QOne, o.pr) => QLt(QZero, o.thrust)
            /\ o.pr = QOne => QIsZero(o.thrust)

\* C11: recompute is idempotent and history-free for PropellerAero,
\* PowerGearBox, TurbopropGeom and Compressor: a compute that follows a
\* compute with no input set in between leaves the outwards, the output
\* ports and the outcome as they are, and what a successful compute leaves
\* is what it leaves on the system as constructed, whatever the outwards
\* held before.
C11_IdempotentHistoryFree ==
    [][ /\ (last = "prop_compute" /\ last' = "prop_compute") =>
              (prop_out' = prop_out /\ prop_status' = prop_status)
        /\ (last' = "prop_compute" /\ prop_status' = "ok") =>
              prop_out' = PropellerCompute(prop_in', PropDefaultOut).out
        /\ (last = "pgb_compute" /\ last' = "pgb_compute") =>
              (pgb_out' = pgb_out /\ pgb_status' = pgb_status)
        /\ (last' = "pgb_compute" /\ pgb_status' = "ok") =>
              pgb_out' = PowerGearBoxCompute(pgb_in', PgbDefaultOut).out
        /\ (last = "geom_compute" /\ last' = "geom_compute") => geom_out' = geom_out
        /\ last' = "geom_compute" => geom_out' = TurbopropGeomCompute(geom_in')
        /\ (last = "cmp_compute" /\ last' = "cmp_compute") => cmp_val' = cmp_val
        /\ last' = "cmp_compute" => cmp_val'.N = cmp_val'.sh_in_N
      ]_vars

\* a successful compute of PropellerAero on inputs set after construction,
\* whose outwards are no longer those of setup
C11_Witness ==
    /\ last = "prop_compute"
    /\ prop_status = "ok"
    /\ prop_in # PropDefaultIn
    /\ prop_out.utip = QI(11)
    /\ prop_out.phi # PropDefaultOut.phi

\* C12: a physically invalid state met during a recompute ends in an error,
\* never in a normal completion: PropellerAero.compute with fl_in.W = 0,
\* with utip = 0, or with fl_in.Pt <= 0 or fl_in.Tt <= 0, and
\* PowerGearBox.compute with speed_ratio = 0; and a compute that completes
\* leaves finite outputs.
C12_DomainErrorsSignalled ==
    /\ (/\ last = "prop_compute"
        /\ \/ QIsZero(prop_in.W)
           \/ QIsZero(PropUtip(prop_in))
           \/ QLe(prop_in.Pt, QZero)
           \/ QLe(prop_in.Tt, QZero)) =>
          prop_status \in { "ZeroDivisionError", "ConvergenceError" }
    /\ (last = "prop_compute" /\ prop_status = "ok") =>
          \A f \in DOMAIN prop_out : XIsFinite(prop_out[f])
    /\ (last = "pgb_compute" /\ QIsZero(pgb_in.speed_ratio)) =>
          pgb_status = "ZeroDivisionError"
    /\ (last = "pgb_compute" /\ pgb_status = "ok") =>
          (XIsFinite(pgb_out.N) /\ XIsFinite(pgb_out.power))

\* C13: every name the tests import from a package is exported by that
\* package (pyturbo.systems exposes TorqueGenerator; pyturbo.systems.turboprop
\* exposes Turboprop, TurbopropAero and TurbopropGeom), so the imports of
\* every collected test module resolve.
C13_ImportsResolve ==
    \A t \in TestModules :
        imp_status[t] # "pending" =>
            /\ imp_status[t] = "ok"
            /\ \A i \in TestImports(t) :
                  i[1] \in KnownPackages => i[2] \in Bound(i[1])

\* the lengths TurbopropGeom chains, from its inwards
GeomPropellerLength(in) ==
    QMul(QDiv(in.propeller_diameter, QI(2)), in.propeller_length_ratio)
GeomCoreInletRadius(in) ==
    QMul(QDiv(in.propeller_diameter, QI(2)), in.core_inlet_radius_ratio)
GeomCoreLength(in) == QMul(GeomCoreInletRadius(in), in.core_length_ratio)
GeomNozzleLength(in) == QMul(GeomCoreInletRadius(in), in.primary_nozzle_length_ratio)

\* both exit keypoints of a set lie one length behind its inlet keypoints
Chained(kp, length) ==
    /\ kp.exit_hub.z = QAdd(kp.inlet_hub.z, length)
    /\ kp.exit_tip.z = QAdd(kp.inlet_tip.z, length)

\* C14: after TurbopropGeom.compute, for the propeller, the core and the
\* primary nozzle, exit_hub.z = inlet_hub.z + length and
\* exit_tip.z = inlet_tip.z + length, the lengths being
\* propeller_radius propeller_length_ratio, core_inlet_radius core_length_ratio
\* and core_inlet_radius primary_nozzle_length_ratio.
C14_AxialChaining ==
    last = "geom_compute" =>
        /\ Chained(geom_out.propeller_kp, GeomPropellerLength(geom_in))
        /\ Chained(geom_out.core_kp, GeomCoreLength(geom_in))
        /\ Chained(geom_out.primary_nozzle_kp, GeomNozzleLength(geom_in))

\* C15: after TurbopropGeom.compute with a nozzle length ratio >= 0 and any
\* cowl slope, the segment from the core exit tip to pri_nozzle_exit_kp has
\* the axial length dz = max(min_dz, primary_nozzle_length), with
\* min_dz = (nozzle_exit_tip_r - core_exit_tip_r) / tan(slope); so
\* dz >= primary_nozzle_length >= 0 and dz >= min_dz; the exit point is
\* core_exit_tip + (dz tan(slope), dz); and its radius is never negative.
C15_CowlClamp ==
    (last = "geom_compute" /\ QLe(QZero, geom_in.primary_nozzle_length_ratio)) =>
        LET t == TanDeg(geom_in.core_cowl_slope)
            core_exit_tip == geom_out.core_kp.exit_tip
            length == GeomNozzleLength(geom_in)
            min_dz == XDiv(QSub(geom_out.primary_nozzle_kp.exit_tip.r, core_exit_tip.r), t)
            dz == PyMax(min_dz, length)
            exit == geom_out.pri_nozzle_exit_kp.rz
        IN  /\ exit = KpAdd(core_exit_tip, Kp(XMul(dz, t), dz))
            /\ QLe(length, dz)
            /\ QLe(QZero, length)
            /\ QLe(min_dz, dz)
            /\ ~QLt(exit.r, QZero)

\* the variables of a geometry child that the design methods name
GeomChildVariables == { HtrName, BhrName }
GeomUnknowns(dm) == { u \in dm.unknowns : u.name \in GeomChildVariables }

\* C16 as stated: geometry is never solved: a geometry model declares no
\* unknowns, equations or design methods, and no design method of a component
\* lists a variable of a geometry child among its unknowns.
C16_GeometryNeverSolved ==
    /\ geom_problem.unknowns = {}
    /\ geom_problem.equations = {}
    /\ geom_problem.design_methods = {}
    /\ \A m \in DOMAIN cmp_dm : GeomUnknowns(cmp_dm[m]) = {}
    /\ \A m \in DOMAIN tur_dm : GeomUnknowns(tur_dm[m]) = {}

\* C16, amended: the geometry model TurbopropGeom declares no unknowns,
\* equations or design methods; the only variables of a geometry child that a
\* design method lists among its unknowns are geom.blade_hub_to_tip_ratio, in
\* the scaling method of a Compressor built with config "booster", and
\* geom.blade_height_ratio, in the scaling method of a Turbine; both carry a
\* finite upper bound, and the system's own off-design problem has none.
C16_GeomUnknownsInScalingOnly ==
    /\ geom_problem.unknowns = {}
    /\ geom_problem.equations = {}
    /\ geom_problem.design_methods = {}
    /\ \A m \in DOMAIN cmp_dm :
          UnknownNames([ unknowns |-> GeomUnknowns(cmp_dm[m]) ]) =
              IF m = "scaling" /\ cmp_config = "booster" THEN { HtrName } ELSE {}
    /\ \A m \in DOMAIN tur_dm :
          UnknownNames([ unknowns |-> GeomUnknowns(tur_dm[m]) ]) =
              IF m = "scaling" THEN { BhrName } ELSE {}
    /\ \A m \in DOMAIN cmp_dm : \A u \in GeomUnknowns(cmp_dm[m]) : u.upper # PosInf
    /\ \A m \in DOMAIN tur_dm : \A u \in GeomUnknowns(tur_dm[m]) : u.upper # PosInf
    /\ { u \in tur_offdesign : u.name \in GeomChildVariables } = {}

\* a booster whose scaling method a solver has taken, next to a geometry
\* model that has been computed
C16_Witness ==
    /\ cmp_config = "booster"
    /\ HtrName \in UnknownNames(cmp_problem)
    /\ BhrName \in UnknownNames(tur_problem)
    /\ geom_out # GeomDefaultOut
    /\ geom_problem = GeomDeclared

\* C17: frame of a recompute.  Compressor.compute changes only N (the shaft
\* input, the geometry and the declarations stay as they were);
\* PowerGearBox.compute changes only sh_out; PropellerAero.compute changes none
\* of fl_in, sh_in, radius, inlet_area, eff_poly, phiP, xnd;
\* TurbopropGeom.compute changes none of its inwards.
C17_RecomputeFrame ==
    [][ /\ last' = "cmp_compute" =>
              /\ DOMAIN cmp_val' = DOMAIN cmp_val
              /\ \A f \in DOMAIN cmp_val \ { "N" } : cmp_val'[f] = cmp_val[f]
              /\ UNCHANGED << cmp_config, cmp_dm, cmp_problem >>
        /\ last' = "pgb_compute" => UNCHANGED pgb_in
        /\ last' = "prop_compute" => UNCHANGED prop_in
        /\ last' = "geom_compute" => UNCHANGED << geom_in, geom_problem >>
      ]_vars

\* a compressor recomputed at a shaft speed other than the default: N was
\* written, sh_in.N was not
C17_Witness ==
    /\ last = "cmp_compute"
    /\ cmp_val.sh_in_N = QI(5000)
    /\ cmp_val.N = QI(5000)

\* C18: failure atomicity of PropellerAero.compute.  When compute ends in an
\* error (W = 0, a failed temperature inversion, utip = 0), none of the
\* outwards tr, pr, utip, phi, psi, eps_psi, pcnr, power, thrust is modified.
C18_FailureAtomicity ==
    [][ (last' = "prop_compute" /\ prop_status' # "ok") => prop_out' = prop_out ]_vars

===========================================================================
